---------------------------- MODULE Spec2Model ----------------------------
(***************************************************************************)
(* Model of the two console utilities of goit-algo-hw-05:                  *)
(*   task4/task4.py  the contact assistant (read-eval-print loop)          *)
(*   task3/task3.py  the log analyzer (load, count, filter, display)       *)
(*                                                                         *)
(* A Python str is a sequence of one-character strings, so that split(),   *)
(* strip(), lower(), upper() and join() are computed as Python computes    *)
(* them.  A string literal of the source that is only ever printed is kept *)
(* as one piece, Lit("..."): it holds a space or punctuation and so never  *)
(* equals a token produced by split().                                     *)
(***************************************************************************)
EXTENDS Naturals, Sequences, FiniteSets, TLC

VARIABLES
    \* ---- task4: contact assistant ----
    contacts,     \* the dict of main(): name -> phone
    pc,           \* "loop" (waiting for input), "done" (after break), "crashed"
    user_input,   \* the line last read by input()
    printed,      \* the value last passed to print()
    added,        \* history: the names some add with two arguments has stored
    \* ---- task3: log analyzer ----
    argv,         \* sys.argv
    fs_kind,      \* what argv[1] names on disk: "missing", "dir" or "file"
    file_lines,   \* the lines of that file, without their line ends
    lpc,          \* position in main(): "start", "load", "count", "filter", "done", "crashed"
    level,        \* main's local `level`
    logs,         \* main's local `logs`
    counts,       \* the dict handed to display_log_counts
    filtered,     \* main's local `filtered_logs`
    stdout        \* the lines printed so far, in order

assistantVars == <<contacts, pc, user_input, printed, added>>
analyzerVars == <<argv, fs_kind, file_lines, lpc, level, logs, counts, filtered, stdout>>
vars == <<contacts, pc, user_input, printed, added,
          argv, fs_kind, file_lines, lpc, level, logs, counts, filtered, stdout>>

---------------------------------------------------------------------------
(* Bounds *)

\* the largest number of arguments after the command word of an input line
MaxArgs == 3
\* the largest number of lines of a log file
MaxLines == 3
\* the largest number of records of a list handed to a function
MaxLogs == 3

---------------------------------------------------------------------------
(* Python str operations *)

Whitespace == {" ", "\t", "\n"}

UpperAlpha == <<"A","B","C","D","E","F","G","H","I","J","K","L","M",
                "N","O","P","Q","R","S","T","U","V","W","X","Y","Z">>
LowerAlpha == <<"a","b","c","d","e","f","g","h","i","j","k","l","m",
                "n","o","p","q","r","s","t","u","v","w","x","y","z">>

Lit(s) == <<s>>

LowerChar(c) ==
    IF \E i \in 1..26 : UpperAlpha[i] = c
    THEN LowerAlpha[CHOOSE i \in 1..26 : UpperAlpha[i] = c]
    ELSE c

UpperChar(c) ==
    IF \E i \in 1..26 : LowerAlpha[i] = c
    THEN UpperAlpha[CHOOSE i \in 1..26 : LowerAlpha[i] = c]
    ELSE c

\* str.lower()
Lower(s) == [i \in 1..Len(s) |-> LowerChar(s[i])]

\* str.upper()
Upper(s) == [i \in 1..Len(s) |-> UpperChar(s[i])]

RECURSIVE LStrip(_)
LStrip(s) == IF s # <<>> /\ Head(s) \in Whitespace THEN LStrip(Tail(s)) ELSE s

RECURSIVE RStrip(_)
RStrip(s) ==
    IF s # <<>> /\ s[Len(s)] \in Whitespace
    THEN RStrip(SubSeq(s, 1, Len(s) - 1))
    ELSE s

\* str.strip()
Strip(s) == RStrip(LStrip(s))

RECURSIVE SplitFrom(_, _, _, _)
SplitFrom(s, i, cur, out) ==
    IF i > Len(s)
    THEN IF cur = <<>> THEN out ELSE Append(out, cur)
    ELSE IF s[i] \in Whitespace
         THEN SplitFrom(s, i + 1, <<>>, IF cur = <<>> THEN out ELSE Append(out, cur))
         ELSE SplitFrom(s, i + 1, Append(cur, s[i]), out)

\* str.split() with no separator: the maximal runs of non-whitespace
Split(s) == SplitFrom(s, 1, <<>>, <<>>)

RECURSIVE JoinWith(_, _)
JoinWith(sep, ts) ==
    IF ts = <<>> THEN <<>>
    ELSE IF Len(ts) = 1 THEN ts[1]
    ELSE ts[1] \o sep \o JoinWith(sep, Tail(ts))

\* " ".join(ts)
Join(ts) == JoinWith(<<" ">>, ts)

---------------------------------------------------------------------------
(* Python values and results *)

PyStr(s) == [kind |-> "str", val |-> s]
PyDict(d) == [kind |-> "dict", val |-> d]
PyNone == [kind |-> "none", val |-> <<>>]

\* the outcome of a call on the contact dict: a returned value or a raised
\* exception, and the dict as the call left it
Return(v, d) == [exc |-> "none", msg |-> <<>>, ret |-> v, contacts |-> d]
Raise(e, m, d) == [exc |-> e, msg |-> m, ret |-> PyNone, contacts |-> d]

EmptyDict == [n \in {} |-> <<>>]

\* d[k] = v
SetItem(d, k, v) == [n \in (DOMAIN d) \cup {k} |-> IF n = k THEN v ELSE d[n]]

---------------------------------------------------------------------------
(* task4.py *)

MSG_VALUE_ERROR == Lit("Give me name and phone please.")
MSG_KEY_ERROR == Lit("Contact not found, please enter a valid name.")
MSG_INDEX_ERROR == Lit("Too few or too many arguments in your command.")
MSG_ADDED == Lit("Contact added.")
MSG_CHANGED == Lit("Contact changed.")
MSG_INVALID == Lit("Invalid command.")
MSG_HELLO == Lit("How can I help you?")
MSG_BYE == Lit("Good bye!")
MSG_WELCOME == Lit("Welcome to the assistant bot!")

\* the decorator: the wrapped call's exception becomes a returned message
input_error(r) ==
    IF r.exc = "none" THEN r
    ELSE IF r.exc = "ValueError" THEN Return(PyStr(MSG_VALUE_ERROR), r.contacts)
    ELSE IF r.exc = "KeyError" THEN Return(PyStr(MSG_KEY_ERROR), r.contacts)
    ELSE IF r.exc = "IndexError" THEN Return(PyStr(MSG_INDEX_ERROR), r.contacts)
    ELSE Return(PyStr(Lit("An error occurred: ") \o r.msg), r.contacts)

\* cmd, *args = user_input.split(): raises ValueError on no token at all
parse_input(line) ==
    LET parts == Split(line) IN
    IF parts = <<>>
    THEN [exc |-> "ValueError", cmd |-> <<>>, args |-> <<>>]
    ELSE [exc |-> "none", cmd |-> Lower(Strip(parts[1])), args |-> Tail(parts)]

add_contact_swapped(args, d) ==
    IF Len(args) # 2
    THEN Raise("ValueError", Lit("Name and phone required"), d)
    ELSE Return(PyStr(MSG_ADDED), SetItem(d, args[2], args[1]))

add_contact_lenient(args, d) ==
    IF Len(args) < 2
    THEN Raise("ValueError", Lit("Name and phone required"), d)
    ELSE Return(PyStr(MSG_ADDED), SetItem(d, args[1], args[2]))

add_contact_func(args, d) ==
    IF Len(args) # 2
    THEN Raise("ValueError", Lit("Name and phone required"), d)
    ELSE Return(PyStr(MSG_ADDED), SetItem(d, args[1], args[2]))

add_contact(args, d) == input_error(add_contact_func(args, d))

change_contact_upsert(args, d) ==
    IF Len(args) # 2
    THEN Raise("ValueError", Lit("Name and phone required"), d)
    ELSE IF args[1] \notin DOMAIN d
         THEN Raise("KeyError", Lit("Contact does not exist"), SetItem(d, args[1], args[2]))
         ELSE Return(PyStr(MSG_CHANGED), SetItem(d, args[1], args[2]))

change_contact_func(args, d) ==
    IF Len(args) # 2
    THEN Raise("ValueError", Lit("Name and phone required"), d)
    ELSE IF args[1] \notin DOMAIN d
         THEN Raise("KeyError", Lit("Contact does not exist"), d)
         ELSE Return(PyStr(MSG_CHANGED), SetItem(d, args[1], args[2]))

change_contact(args, d) == input_error(change_contact_func(args, d))

find_phone_last_arg(args, d) ==
    IF Len(args) = 0
    THEN Raise("IndexError", Lit("Name required"), d)
    ELSE IF args[Len(args)] \notin DOMAIN d
         THEN Raise("KeyError", Lit("Contact does not exist"), d)
         ELSE Return(PyStr(d[args[Len(args)]]), d)

find_phone_pop(args, d) ==
    IF Len(args) = 0
    THEN Raise("IndexError", Lit("Name required"), d)
    ELSE IF args[1] \notin DOMAIN d
         THEN Raise("KeyError", Lit("Contact does not exist"), d)
         ELSE Return(PyStr(d[args[1]]), [n \in (DOMAIN d) \ {args[1]} |-> d[n]])

find_phone_func(args, d) ==
    IF Len(args) = 0
    THEN Raise("IndexError", Lit("Name required"), d)
    ELSE IF args[1] \notin DOMAIN d
         THEN Raise("KeyError", Lit("Contact does not exist"), d)
         ELSE Return(PyStr(d[args[1]]), d)

find_phone(args, d) == input_error(find_phone_func(args, d))

show_all_func(d) == Return(PyDict(d), d)

show_all(d) == input_error(show_all_func(d))

\* ---- the lines typed at the prompt ----

W_ADD == <<"a","d","d">>
W_ADD_CAP == <<"A","d","d">>
W_CHANGE == <<"c","h","a","n","g","e">>
W_PHONE == <<"p","h","o","n","e">>
W_ALL == <<"a","l","l">>
W_HELLO == <<"h","e","l","l","o">>
W_EXIT == <<"e","x","i","t">>
W_CLOSE == <<"C","L","O","S","E">>
W_OTHER == <<"d","e","l">>

\* the words used as names and as phones
ArgWords == {<<"A">>, <<"7">>}

ArgSeqs(n) == UNION {[1..k -> ArgWords] : k \in 0..n}

\* a line as typed neatly, and the same tokens with stray whitespace
Neat(ts) == Join(ts)
Messy(ts) == <<"\t">> \o JoinWith(<<" ", " ">>, ts) \o <<" ">>

InputLines ==
    {Neat(<<c>> \o a) : c \in {W_ADD, W_ADD_CAP, W_CHANGE, W_PHONE}, a \in ArgSeqs(MaxArgs)}
    \cup {Messy(<<c>> \o a) : c \in {W_ADD, W_CHANGE, W_PHONE}, a \in ArgSeqs(MaxArgs)}
    \cup {Neat(<<c>> \o a) : c \in {W_ALL, W_HELLO, W_EXIT, W_CLOSE, W_OTHER}, a \in ArgSeqs(1)}
    \cup {<<>>, <<" ">>, <<" ", "\t">>}

\* parse_input on each line that can be typed, computed once
ParsedLines == [line \in InputLines |-> parse_input(line)]

\* ---- main(): one action per branch of the loop body ----

Init ==
    /\ contacts = EmptyDict
    /\ pc = "loop"
    /\ user_input = <<>>
    /\ printed = PyStr(MSG_WELCOME)
    /\ added = {}
    /\ argv = <<>>
    /\ fs_kind = "missing"
    /\ file_lines = <<>>
    /\ lpc = "start"
    /\ level = <<>>
    /\ logs = <<>>
    /\ counts = [keys |-> <<>>, val |-> EmptyDict]
    /\ filtered = <<>>
    /\ stdout = <<>>

\* parse_input raises: nothing in main catches it
MainParseError(line) ==
    /\ pc = "loop"
    /\ ParsedLines[line].exc # "none"
    /\ user_input' = line
    /\ pc' = "crashed"
    /\ UNCHANGED <<contacts, printed, added>>
    /\ UNCHANGED analyzerVars

MainExit(line) ==
    LET p == ParsedLines[line] IN
    /\ pc = "loop"
    /\ p.exc = "none"
    /\ p.cmd \in {<<"c","l","o","s","e">>, <<"e","x","i","t">>}
    /\ user_input' = line
    /\ printed' = PyStr(MSG_BYE)
    /\ pc' = "done"
    /\ UNCHANGED <<contacts, added>>
    /\ UNCHANGED analyzerVars

MainHello(line) ==
    LET p == ParsedLines[line] IN
    /\ pc = "loop"
    /\ p.exc = "none"
    /\ p.cmd = <<"h","e","l","l","o">>
    /\ user_input' = line
    /\ printed' = PyStr(MSG_HELLO)
    /\ UNCHANGED <<contacts, pc, added>>
    /\ UNCHANGED analyzerVars

MainAdd(line) ==
    LET p == ParsedLines[line]
        r == add_contact(p.args, contacts)
    IN
    /\ pc = "loop"
    /\ p.exc = "none"
    /\ p.cmd = <<"a","d","d">>
    /\ user_input' = line
    /\ contacts' = r.contacts
    /\ printed' = r.ret
    /\ pc' = IF r.exc = "none" THEN "loop" ELSE "crashed"
    /\ added' = IF Len(p.args) = 2 THEN added \cup {p.args[1]} ELSE added
    /\ UNCHANGED analyzerVars

MainChange(line) ==
    LET p == ParsedLines[line]
        r == change_contact(p.args, contacts)
    IN
    /\ pc = "loop"
    /\ p.exc = "none"
    /\ p.cmd = <<"c","h","a","n","g","e">>
    /\ user_input' = line
    /\ contacts' = r.contacts
    /\ printed' = r.ret
    /\ pc' = IF r.exc = "none" THEN "loop" ELSE "crashed"
    /\ UNCHANGED added
    /\ UNCHANGED analyzerVars

MainPhone(line) ==
    LET p == ParsedLines[line]
        r == find_phone(p.args, contacts)
    IN
    /\ pc = "loop"
    /\ p.exc = "none"
    /\ p.cmd = <<"p","h","o","n","e">>
    /\ user_input' = line
    /\ contacts' = r.contacts
    /\ printed' = r.ret
    /\ pc' = IF r.exc = "none" THEN "loop" ELSE "crashed"
    /\ UNCHANGED added
    /\ UNCHANGED analyzerVars

MainAll(line) ==
    LET p == ParsedLines[line]
        r == show_all(contacts)
    IN
    /\ pc = "loop"
    /\ p.exc = "none"
    /\ p.cmd = <<"a","l","l">>
    /\ user_input' = line
    /\ contacts' = r.contacts
    /\ printed' = r.ret
    /\ pc' = IF r.exc = "none" THEN "loop" ELSE "crashed"
    /\ UNCHANGED added
    /\ UNCHANGED analyzerVars

MainInvalid(line) ==
    LET p == ParsedLines[line] IN
    /\ pc = "loop"
    /\ p.exc = "none"
    /\ p.cmd \notin {<<"c","l","o","s","e">>, <<"e","x","i","t">>, <<"h","e","l","l","o">>,
                     <<"a","d","d">>, <<"c","h","a","n","g","e">>, <<"p","h","o","n","e">>,
                     <<"a","l","l">>}
    /\ user_input' = line
    /\ printed' = PyStr(MSG_INVALID)
    /\ UNCHANGED <<contacts, pc, added>>
    /\ UNCHANGED analyzerVars

Next ==
    \E line \in InputLines :
        \/ MainParseError(line)
        \/ MainExit(line)
        \/ MainHello(line)
        \/ MainAdd(line)
        \/ MainChange(line)
        \/ MainPhone(line)
        \/ MainAll(line)
        \/ MainInvalid(line)

Spec == Init /\ [][Next]_vars

---------------------------------------------------------------------------
(* task3.py *)

Digits == <<"0","1","2","3","4","5","6","7","8","9">>

\* str(n) for a natural number
RECURSIVE IntToStr(_)
IntToStr(n) ==
    IF n < 10 THEN <<Digits[n + 1]>>
    ELSE IntToStr(n \div 10) \o <<Digits[(n % 10) + 1]>>

\* the outcome of a call of the analyzer: a returned value or a raised
\* exception, and the lines the call printed
LogReturn(v, out) == [exc |-> "none", msg |-> <<>>, ret |-> v, out |-> out]
LogRaise(e, m) == [exc |-> e, msg |-> m, ret |-> <<>>, out |-> <<>>]

\* date, time, level, *text = line.split(): needs three tokens at least
parse_log_line(line) ==
    LET parts == Split(line) IN
    IF Len(parts) < 3
    THEN LogRaise("ValueError",
                  Lit("not enough values to unpack (expected at least 3, got ")
                      \o IntToStr(Len(parts)) \o Lit(")"))
    ELSE LogReturn([date_time |-> parts[1] \o <<" ">> \o parts[2],
                    level |-> parts[3],
                    text |-> Join(SubSeq(parts, 4, Len(parts)))], <<>>)

\* file.readlines(): every line with its line end
readlines(lines) == [i \in 1..Len(lines) |-> lines[i] \o <<"\n">>]

\* the try block of load_logs: the first exception raised ends it
load_logs_try(file_path, kind, lines) ==
    IF kind # "file"
    THEN LogRaise("FileNotFoundError",
                  Lit("The file ") \o file_path \o Lit(" does not exist or is not a file."))
    ELSE LET rl == readlines(lines)
             parsed == [i \in 1..Len(rl) |-> parse_log_line(Strip(rl[i]))]
             bad == {i \in 1..Len(rl) : parsed[i].exc # "none"}
         IN  IF bad # {}
             THEN LET first == CHOOSE i \in bad : \A j \in bad : i <= j
                  IN  LogRaise(parsed[first].exc, parsed[first].msg)
             ELSE LogReturn([i \in 1..Len(rl) |-> parsed[i].ret], <<>>)

\* a loader that skips the lines it cannot parse
load_logs_best_effort(file_path, kind, lines) ==
    IF kind # "file"
    THEN LogReturn(<<>>, <<Lit("The file ") \o file_path
                              \o Lit(" does not exist or is not a file.")>>)
    ELSE LET rl == readlines(lines)
             parsed == [i \in 1..Len(rl) |-> parse_log_line(Strip(rl[i]))]
             good == SelectSeq(parsed, LAMBDA r : r.exc = "none")
         IN  LogReturn([i \in 1..Len(good) |-> good[i].ret], <<>>)

\* load_logs: both handlers print and return []
load_logs(file_path, kind, lines) ==
    LET r == load_logs_try(file_path, kind, lines) IN
    IF r.exc = "none" THEN r
    ELSE IF r.exc = "FileNotFoundError" THEN LogReturn(<<>>, <<r.msg>>)
    ELSE LogReturn(<<>>, <<Lit("An unexpected error occurred: ") \o r.msg>>)

RECURSIVE filter_loop(_, _, _, _)
filter_loop(logs_, level_, i, filtered_list) ==
    IF i > Len(logs_) THEN filtered_list
    ELSE filter_loop(logs_, level_, i + 1,
                     IF Upper(level_) = logs_[i].level
                     THEN Append(filtered_list, logs_[i])
                     ELSE filtered_list)

\* a filter that uppercases both sides
filter_logs_by_level_both(logs_, level_) ==
    SelectSeq(logs_, LAMBDA log : Upper(level_) = Upper(log.level))

filter_logs_by_level(logs_, level_) == filter_loop(logs_, level_, 1, <<>>)

\* a Counter, and the dict made of it: the keys in first-seen order and
\* the count of each
EmptyCounter == [keys |-> <<>>, val |-> EmptyDict]

\* counted_levels[k] += 1
Increment(c, k) ==
    IF k \in DOMAIN c.val
    THEN [keys |-> c.keys, val |-> [c.val EXCEPT ![k] = @ + 1]]
    ELSE [keys |-> Append(c.keys, k), val |-> SetItem(c.val, k, 1)]

RECURSIVE count_loop(_, _, _)
count_loop(logs_, i, counted_levels) ==
    IF i > Len(logs_) THEN counted_levels
    ELSE count_loop(logs_, i + 1, Increment(counted_levels, logs_[i].level))

\* a tally that folds the case of the level
count_log_by_level_upper(logs_) ==
    count_loop([i \in 1..Len(logs_) |-> [logs_[i] EXCEPT !.level = Upper(@)]], 1, EmptyCounter)

count_log_by_level(logs_) == count_loop(logs_, 1, EmptyCounter)

\* the width of the level column of the table
PAD_WIDTH == 16

\* f"{k:<16}"
PadRight(s, width) ==
    IF Len(s) >= width THEN s ELSE s \o [i \in 1..(width - Len(s)) |-> " "]

\* the two header lines of the table; the source's header text is Ukrainian
\* and is written here in Latin letters
TABLE_HEADER == Lit("Riven' lohuvannya | Kil'kist'")
TABLE_RULE == Lit("-----------------|----------")

\* display_log_counts: the lines it prints
display_log_counts(c) ==
    <<TABLE_HEADER, TABLE_RULE>>
    \o [i \in 1..Len(c.keys) |->
           PadRight(c.keys[i], PAD_WIDTH) \o <<" ", "|", " ">> \o IntToStr(c.val[c.keys[i]])]

MSG_USAGE == Lit("Usage: python script.py <file_path> [level]")
MSG_NO_LOGS == Lit("No logs to display.")

\* the header of the details, Ukrainian in the source: "\nDetails of the logs for level '<level>'"
DetailsHeader(level_) == Lit("\nDetali lohiv dlya rivnya '") \o level_ \o Lit("'")

\* f"{log['date_time']} - {log['text']}"
DetailsLine(log) == log.date_time \o <<" ", "-", " ">> \o log.text

\* ---- the command lines and the files the analyzer is run on ----

T_D1 == <<"d">>
T_T1 == <<"t">>
T_D2 == <<"e">>
T_T2 == <<"u">>
T_ER == <<"E","R">>
T_ER_LOW == <<"e","r">>
T_ER_MIX == <<"E","r">>
T_IN == <<"I","N">>
T_A == <<"a">>
T_B == <<"b">>

LogLines ==
    { <<>>,
      <<" ", "\t">>,
      Neat(<<T_D1>>),
      Neat(<<T_D1, T_T1>>),
      Neat(<<T_D1, T_T1, T_ER>>),
      Neat(<<T_D1, T_T1, T_ER, T_A, T_B>>),
      Messy(<<T_D1, T_T1, T_ER_LOW, T_A>>),
      Neat(<<T_D2, T_T2, T_IN, T_A>>) }

SeqsUpTo(S, n) == UNION {[1..k -> S] : k \in 0..n}

SCRIPT == <<"t","a","s","k","3",".","p","y">>
PATH == <<"a",".","l","o","g">>

\* the level arguments tried; the last is the empty string
Queries == {T_ER, T_ER_LOW, T_IN, <<"X">>, <<>>}

ArgvSet ==
    {<<SCRIPT>>, <<SCRIPT, PATH>>}
    \cup {<<SCRIPT, PATH, q>> : q \in Queries}
    \cup {<<SCRIPT, PATH, q, T_A>> : q \in {T_ER, T_IN}}

\* ---- main(): one action per step ----

InitLog ==
    /\ argv \in ArgvSet
    /\ fs_kind \in (IF Len(argv) < 2 THEN {"missing"} ELSE {"missing", "dir", "file"})
    /\ file_lines \in (IF fs_kind = "file" THEN SeqsUpTo(LogLines, MaxLines) ELSE {<<>>})
    /\ lpc = "start"
    /\ level = <<>>
    /\ logs = <<>>
    /\ counts = EmptyCounter
    /\ filtered = <<>>
    /\ stdout = <<>>
    /\ contacts = EmptyDict
    /\ pc = "loop"
    /\ user_input = <<>>
    /\ printed = PyStr(MSG_WELCOME)
    /\ added = {}

\* no file path: usage, return
MainUsage ==
    /\ lpc = "start"
    /\ Len(argv) < 2
    /\ stdout' = Append(stdout, MSG_USAGE)
    /\ lpc' = "done"
    /\ UNCHANGED <<argv, fs_kind, file_lines, level, logs, counts, filtered>>
    /\ UNCHANGED assistantVars

\* file_path, level, logs = load_logs(file_path)
MainLoad ==
    LET r == load_logs(argv[2], fs_kind, file_lines) IN
    /\ lpc = "start"
    /\ Len(argv) >= 2
    /\ level' = IF Len(argv) = 3 THEN argv[3] ELSE <<>>
    /\ logs' = r.ret
    /\ stdout' = stdout \o r.out
    /\ lpc' = IF r.exc = "none" THEN "loaded" ELSE "crashed"
    /\ UNCHANGED <<argv, fs_kind, file_lines, counts, filtered>>
    /\ UNCHANGED assistantVars

\* if not logs: "No logs to display.", return
MainNoLogs ==
    /\ lpc = "loaded"
    /\ logs = <<>>
    /\ stdout' = Append(stdout, MSG_NO_LOGS)
    /\ lpc' = "done"
    /\ UNCHANGED <<argv, fs_kind, file_lines, level, logs, counts, filtered>>
    /\ UNCHANGED assistantVars

\* display_log_counts(count_log_by_level(logs))
MainCounts ==
    /\ lpc = "loaded"
    /\ logs # <<>>
    /\ counts' = count_log_by_level(logs)
    /\ stdout' = stdout \o display_log_counts(counts')
    /\ lpc' = IF level # <<>> THEN "counted" ELSE "done"
    /\ UNCHANGED <<argv, fs_kind, file_lines, level, logs, filtered>>
    /\ UNCHANGED assistantVars

\* if level != "": the details
MainDetails ==
    /\ lpc = "counted"
    /\ filtered' = filter_logs_by_level(logs, level)
    /\ stdout' = stdout \o <<DetailsHeader(level)>>
                        \o [i \in 1..Len(filtered') |-> DetailsLine(filtered'[i])]
    /\ lpc' = "done"
    /\ UNCHANGED <<argv, fs_kind, file_lines, level, logs, counts>>
    /\ UNCHANGED assistantVars

NextLog ==
    \/ MainUsage
    \/ MainLoad
    \/ MainNoLogs
    \/ MainCounts
    \/ MainDetails

SpecLog == InitLog /\ [][NextLog]_vars

\* ---- filter_logs_by_level and count_log_by_level called on any list ----

LogRecords ==
    { [date_time |-> T_D1 \o <<" ">> \o T_T1, level |-> T_ER, text |-> T_A],
      [date_time |-> T_D1 \o <<" ">> \o T_T1, level |-> T_ER, text |-> Join(<<T_A, T_B>>)],
      [date_time |-> T_D1 \o <<" ">> \o T_T1, level |-> T_ER_LOW, text |-> T_A],
      [date_time |-> T_D1 \o <<" ">> \o T_T1, level |-> T_ER_MIX, text |-> <<>>],
      [date_time |-> T_D2 \o <<" ">> \o T_T2, level |-> T_IN, text |-> T_A] }

FnQueries == {T_ER, T_ER_LOW, T_ER_MIX, <<"i","n">>, <<"X">>, <<>>}

InitFn ==
    /\ logs \in SeqsUpTo(LogRecords, MaxLogs)
    /\ level \in FnQueries
    /\ lpc = "call"
    /\ counts = EmptyCounter
    /\ filtered = <<>>
    /\ argv = <<>>
    /\ fs_kind = "missing"
    /\ file_lines = <<>>
    /\ stdout = <<>>
    /\ contacts = EmptyDict
    /\ pc = "loop"
    /\ user_input = <<>>
    /\ printed = PyStr(MSG_WELCOME)
    /\ added = {}

CallFilter ==
    /\ lpc = "call"
    /\ filtered' = filter_logs_by_level(logs, level)
    /\ lpc' = "filter_returned"
    /\ UNCHANGED <<argv, fs_kind, file_lines, level, logs, counts, stdout>>
    /\ UNCHANGED assistantVars

CallCount ==
    /\ lpc = "call"
    /\ counts' = count_log_by_level(logs)
    /\ lpc' = "count_returned"
    /\ UNCHANGED <<argv, fs_kind, file_lines, level, logs, filtered, stdout>>
    /\ UNCHANGED assistantVars

NextFn == CallFilter \/ CallCount

SpecFn == InitFn /\ [][NextFn]_vars

---------------------------------------------------------------------------
(* Properties of the contact assistant *)

\* the command and arguments of the line last read, and of the line this step reads
Last == ParsedLines[user_input]
Now == ParsedLines[user_input']

ErrorMessages == {PyStr(MSG_VALUE_ERROR), PyStr(MSG_KEY_ERROR), PyStr(MSG_INDEX_ERROR)}

\* d2 is d with name set to phone and nothing else touched
OnlySet(d, d2, name, phone) ==
    /\ DOMAIN d2 = (DOMAIN d) \cup {name}
    /\ d2[name] = phone
    /\ \A n \in (DOMAIN d) \ {name} : d2[n] = d[n]

\* C1: no input line is fatal to the loop: after every line read the loop is
\* still reading, or it has ended on the command word exit or close.
C1_NoLineIsFatal ==
    /\ pc \in {"loop", "done"}
    /\ pc = "done" => Last.exc = "none" /\ Last.cmd \in {W_EXIT, Lower(W_CLOSE)}

\* C2: change_contact with two arguments and an absent name answers "Contact
\* not found..." and leaves the dict alone; with another argument count it
\* answers "Give me name and phone please." and leaves the dict alone; only for
\* a present name does it overwrite that name's phone and answer "Contact changed.".
C2_ChangeContact ==
    [][ (Now.exc = "none" /\ Now.cmd = W_CHANGE) =>
          IF Len(Now.args) # 2
          THEN printed' = PyStr(MSG_VALUE_ERROR) /\ contacts' = contacts
          ELSE IF Now.args[1] \notin DOMAIN contacts
               THEN printed' = PyStr(MSG_KEY_ERROR) /\ contacts' = contacts
               ELSE /\ printed' = PyStr(MSG_CHANGED)
                    /\ OnlySet(contacts, contacts', Now.args[1], Now.args[2])
      ]_vars

C2_Witness ==
    /\ pc = "loop"
    /\ Last.exc = "none" /\ Last.cmd = W_CHANGE /\ Len(Last.args) = 2
    /\ Last.args[1] \notin DOMAIN contacts
    /\ contacts # EmptyDict
    /\ printed = PyStr(MSG_KEY_ERROR)

\* C3: add_contact succeeds exactly when it has two arguments: it then stores
\* phone under name, present before or not, touches no other entry and answers
\* "Contact added."; with any other argument count it answers "Give me name and
\* phone please." and leaves the dict alone.
C3_AddContact ==
    [][ (Now.exc = "none" /\ Now.cmd = W_ADD) =>
          IF Len(Now.args) = 2
          THEN /\ printed' = PyStr(MSG_ADDED)
               /\ OnlySet(contacts, contacts', Now.args[1], Now.args[2])
          ELSE printed' = PyStr(MSG_VALUE_ERROR) /\ contacts' = contacts
      ]_vars

C3_Witness ==
    /\ pc = "loop"
    /\ Last.exc = "none" /\ Last.cmd = W_ADD /\ Len(Last.args) = 2
    /\ printed = PyStr(MSG_ADDED)
    /\ Cardinality(DOMAIN contacts) = 2
    /\ contacts[Last.args[1]] = Last.args[2]

\* C4: round trip.  A successful add or change of (name, phone) followed at once
\* by phone name prints that phone; and the add or change leaves the lookup of
\* every other name as it was.
SuccessfulStore(p, out) ==
    /\ p.exc = "none"
    /\ \/ p.cmd = W_ADD /\ out = PyStr(MSG_ADDED)
       \/ p.cmd = W_CHANGE /\ out = PyStr(MSG_CHANGED)

C4_RoundTrip ==
    [][ /\ ( /\ SuccessfulStore(Last, printed)
             /\ Now.exc = "none" /\ Now.cmd = W_PHONE /\ Len(Now.args) >= 1
             /\ Now.args[1] = Last.args[1] )
           => printed' = PyStr(Last.args[2])
        /\ SuccessfulStore(Now, printed')
           => /\ find_phone(<<Now.args[1]>>, contacts').ret = PyStr(Now.args[2])
              /\ \A m \in ArgWords \ {Now.args[1]} :
                    find_phone(<<m>>, contacts').ret = find_phone(<<m>>, contacts).ret
      ]_vars

C4_Witness ==
    /\ pc = "loop"
    /\ SuccessfulStore(Last, printed)
    /\ Last.cmd = W_CHANGE
    /\ Cardinality(DOMAIN contacts) = 2
    /\ Last.args[1] # Last.args[2]
    /\ find_phone(<<Last.args[1]>>, contacts).ret = PyStr(Last.args[2])

\* C5: find_phone answers "Too few or too many arguments..." for no argument,
\* "Contact not found..." for a first argument that is no key, and otherwise the
\* phone stored under the first argument; it never changes the dict and ignores
\* the arguments after the first.
C5_FindPhone ==
    [][ (Now.exc = "none" /\ Now.cmd = W_PHONE) =>
          /\ contacts' = contacts
          /\ printed' = IF Len(Now.args) = 0 THEN PyStr(MSG_INDEX_ERROR)
                        ELSE IF Now.args[1] \notin DOMAIN contacts THEN PyStr(MSG_KEY_ERROR)
                        ELSE PyStr(contacts[Now.args[1]])
      ]_vars

C5_Witness ==
    /\ pc = "loop"
    /\ Last.exc = "none" /\ Last.cmd = W_PHONE /\ Len(Last.args) >= 2
    /\ Last.args[1] \in DOMAIN contacts
    /\ Last.args[2] # Last.args[1]
    /\ printed = PyStr(contacts[Last.args[1]])

\* C10: the dict starts empty and changes only in an add or change step with
\* exactly two arguments, and then only at the given name; a step that prints
\* an error message changes nothing; so no name is ever lost, and a name is
\* stored only if an earlier add with two arguments stored it.
C10_Frame ==
    /\ contacts = EmptyDict
    /\ [][ /\ contacts' # contacts =>
                /\ Now.exc = "none" /\ Now.cmd \in {W_ADD, W_CHANGE} /\ Len(Now.args) = 2
                /\ DOMAIN contacts' \subseteq (DOMAIN contacts) \cup {Now.args[1]}
                /\ \A n \in (DOMAIN contacts) \ {Now.args[1]} :
                      n \in DOMAIN contacts' /\ contacts'[n] = contacts[n]
           /\ printed' \in ErrorMessages => contacts' = contacts
           /\ DOMAIN contacts \subseteq DOMAIN contacts'
         ]_vars
    /\ [](DOMAIN contacts \subseteq added)

C10_Witness ==
    /\ pc = "loop"
    /\ Cardinality(DOMAIN contacts) = 2
    /\ printed \in ErrorMessages
    /\ Last.exc = "none" /\ Last.cmd = W_CHANGE /\ Len(Last.args) = 3

---------------------------------------------------------------------------
(* Properties of the log analyzer *)

Range(f) == {f[i] : i \in DOMAIN f}

\* the tokens of line i of the file
TokensOf(i) == Split(file_lines[i])

\* C6: load_logs is all or nothing and never raises: a path that is missing or
\* no regular file, or any line with fewer than three tokens (a blank line
\* too), gives the empty list; otherwise there is one record per line, in file
\* order, and a line of exactly three tokens gives a record with empty text.
C6_LoadAllOrNothing ==
    /\ lpc # "crashed"
    /\ lpc \in {"loaded", "counted", "done"} /\ Len(argv) >= 2 =>
          IF fs_kind # "file" \/ \E i \in 1..Len(file_lines) : Len(TokensOf(i)) < 3
          THEN logs = <<>>
          ELSE /\ Len(logs) = Len(file_lines)
               /\ \A i \in 1..Len(file_lines) :
                     /\ logs[i].date_time = TokensOf(i)[1] \o <<" ">> \o TokensOf(i)[2]
                     /\ logs[i].level = TokensOf(i)[3]
                     /\ logs[i].text = Join(SubSeq(TokensOf(i), 4, Len(TokensOf(i))))
                     /\ Len(TokensOf(i)) = 3 => logs[i].text = <<>>

C6_Witness ==
    /\ lpc = "loaded"
    /\ fs_kind = "file"
    /\ Len(logs) = 3
    /\ \E i \in 1..3 : Len(TokensOf(i)) = 3 /\ logs[i].text = <<>>
    /\ \E i \in 1..3 : Len(TokensOf(i)) = 5
    /\ logs[1] # logs[2]

\* the output the interface promises for a run that loaded records
ExpectedTable == display_log_counts(count_log_by_level(logs))

ExpectedDetails(q) ==
    LET hits == SelectSeq(logs, LAMBDA log : log.level = Upper(q)) IN
    <<DetailsHeader(q)>> \o [i \in 1..Len(hits) |-> DetailsLine(hits[i])]

\* C7: with a file path and at least one record loaded the table is printed,
\* and whenever a non-empty level argument was given (whatever follows it on
\* the command line) the details header and one line per matching record follow; with no
\* file path only the usage is printed; with no record loaded "No logs to
\* display." ends the output and neither table nor details are printed.
C7_MainOutput ==
    lpc = "done" =>
        IF Len(argv) < 2 THEN stdout = <<MSG_USAGE>>
        ELSE IF logs = <<>>
             THEN /\ stdout[Len(stdout)] = MSG_NO_LOGS
                  /\ TABLE_HEADER \notin Range(stdout)
                  /\ \A q \in Queries : DetailsHeader(q) \notin Range(stdout)
             ELSE IF Len(argv) >= 3 /\ argv[3] # <<>>
                  THEN stdout = ExpectedTable \o ExpectedDetails(argv[3])
                  ELSE stdout = ExpectedTable

---------------------------------------------------------------------------
(* Properties of filter_logs_by_level and count_log_by_level *)

HasLowerCase(s) == \E i \in 1..Len(s) : s[i] \in Range(LowerAlpha)

\* the positions of logs whose stored level is the uppercased query
MatchingPositions == {i \in 1..Len(logs) : logs[i].level = Upper(level)}

\* the k-th smallest member of a set of positions
Nth(S, k) == CHOOSE i \in S : Cardinality({j \in S : j <= i}) = k

\* C8: filter_logs_by_level returns exactly the records whose stored level
\* equals the uppercased query, in their order and as often as they occur;
\* queries that differ only in letter case give the same result; a record whose
\* stored level has a lowercase letter is never returned; nothing matching
\* gives the empty list; logs is not modified.
C8_Filter ==
    /\ [](lpc = "filter_returned" =>
            /\ Len(filtered) = Cardinality(MatchingPositions)
            /\ \A k \in 1..Len(filtered) : filtered[k] = logs[Nth(MatchingPositions, k)]
            /\ \A q \in FnQueries :
                  Lower(q) = Lower(level) => filter_logs_by_level(logs, q) = filtered
            /\ \A k \in 1..Len(filtered) : ~HasLowerCase(filtered[k].level)
            /\ MatchingPositions = {} => filtered = <<>>)
    /\ [][lpc' = "filter_returned" => logs' = logs]_vars

C8_Witness ==
    /\ lpc = "filter_returned"
    /\ level = T_ER_LOW
    /\ Len(logs) = 3
    /\ Len(filtered) = 2
    /\ filtered[1] # filtered[2]
    /\ \E i \in 1..3 : logs[i].level = T_ER_LOW

RECURSIVE SumOfCounts(_, _)
SumOfCounts(c, i) == IF i > Len(c.keys) THEN 0 ELSE c.val[c.keys[i]] + SumOfCounts(c, i + 1)

LevelsOf(ls) == {ls[i].level : i \in 1..Len(ls)}

\* C9: count_log_by_level counts every record once: the keys are the distinct
\* level strings of logs as they are spelled, each value is the number of
\* records of that level, the values add up to len(logs); the empty list gives
\* the empty mapping and N records of one level give {level: N}.
C9_CountByLevel ==
    lpc = "count_returned" =>
        /\ DOMAIN counts.val = LevelsOf(logs)
        /\ Range(counts.keys) = LevelsOf(logs)
        /\ Len(counts.keys) = Cardinality(LevelsOf(logs))
        /\ \A k \in LevelsOf(logs) :
              counts.val[k] = Cardinality({i \in 1..Len(logs) : logs[i].level = k})
        /\ SumOfCounts(counts, 1) = Len(logs)
        /\ logs = <<>> => counts = EmptyCounter
        /\ \A k \in LevelsOf(logs) :
              LevelsOf(logs) = {k} => counts = [keys |-> <<k>>, val |-> SetItem(EmptyDict, k, Len(logs))]

C9_Witness ==
    /\ lpc = "count_returned"
    /\ Len(logs) = 3
    /\ T_ER \in DOMAIN counts.val /\ counts.val[T_ER] = 2
    /\ T_ER_LOW \in DOMAIN counts.val /\ counts.val[T_ER_LOW] = 1

=============================================================================
